---- MODULE Spec2Model ----
(***************************************************************************)
(* Frequency-decoupled guidance node (nodes.py): the schedule generator    *)
(* create_guidance_scales, the configuration step FDGNode.patch, the       *)
(* per-step callback fdg_function (the step gate) and the guidance mixer   *)
(* laplacian_guidance with build_image_from_pyramid.                       *)
(*                                                                         *)
(* Numbers.  A Python float is an integer count of fine units, One of them *)
(* making 1.0.  A torch tensor of the default element type holds fewer     *)
(* digits than a Python float: its values are the multiples of Quantum     *)
(* fine units, and a Python float entering a tensor is rounded to the      *)
(* nearest of them (ties to even).  Text is a sequence of one-character    *)
(* strings; a float parsed from text is a decimal [m, e] = m * 10^-e in    *)
(* lowest terms.                                                           *)
(***************************************************************************)
EXTENDS Integers, Sequences, FiniteSets, TLC

VARIABLES
    pc,                     \* where the program is
    call,                   \* the arguments of the last call made
    ret,                    \* what that call returned or raised
    cfg,                    \* the arguments FDGNode.patch was given
    guidance_scale,         \* closure of fdg_function: the per-level schedule
    parallel_weights_list,  \* closure of fdg_function: the per-level weights
    sample_sigmas,          \* the host sampler's sigma schedule of this run
    step,                   \* index of the sampler's next step in sample_sigmas
    modes                   \* the branch each sampler step of this run took

vars == <<pc, call, ret, cfg, guidance_scale, parallel_weights_list,
          sample_sigmas, step, modes>>

(***************************************************************************)
(* Bounds of the model.                                                    *)
(***************************************************************************)
One == 16            \* fine units in 1.0
Quantum == 2         \* fine units between neighbouring tensor values
MaxScale == 40       \* largest high_scale / low_scale, in fine units
MaxLevels == 4       \* largest `levels` given to patch and the generator
MaxTextLen == 4      \* longest enumerated parallel_weights text
RelTolDen == 8       \* math.isclose's relative tolerance is 1 / RelTolDen
MaxSigma == 3        \* largest sigma
MaxSchedule == 4     \* longest sigma schedule
MaxFdgSteps == 3     \* largest fdg_steps
MaxMixLevels == 2    \* most pyramid levels whose elements are followed
MaxFactor == 2       \* largest guidance scale and parallel weight of the mixer
MaxSide == 9         \* largest number of rows or columns

None == "None"

Abs(x) == IF x < 0 THEN -x ELSE x
Max(a, b) == IF a >= b THEN a ELSE b
Min(a, b) == IF a <= b THEN a ELSE b

(***************************************************************************)
(* Floating point.                                                         *)
(***************************************************************************)
\* n / d (d > 0) rounded to the nearest integer, ties to even
RoundDiv(n, d) ==
    LET q == n \div d
        r == n % d
    IN  IF 2 * r < d THEN q
        ELSE IF 2 * r > d THEN q + 1
        ELSE IF q % 2 = 0 THEN q ELSE q + 1

\* a Python float stored into a tensor of the default element type
ToTensor(x) == Quantum * RoundDiv(x, Quantum)

\* Linspace counting up from start all the way, the last element not pinned to end
LinspaceFromStart(start, end, steps) ==
    LET s == ToTensor(start)
        e == ToTensor(end)
        stp == IF steps > 1 THEN Quantum * RoundDiv(e - s, Quantum * (steps - 1)) ELSE 0
    IN  [i \in 1..steps |-> s + stp * (i - 1)]

\* torch.linspace(start, end, steps): the end points are stored as given, the
\* step is rounded once, the first half counts up from start and the second
\* half counts down from end; a single step is start alone
Linspace(start, end, steps) ==
    LET s == ToTensor(start)
        e == ToTensor(end)
        stp == IF steps > 1 THEN Quantum * RoundDiv(e - s, Quantum * (steps - 1)) ELSE 0
        halfway == steps \div 2
    IN  IF steps = 1 THEN <<s>>
        ELSE [i \in 1..steps |->
                 IF i - 1 < halfway THEN s + stp * (i - 1) ELSE e - stp * (steps - i)]

\* torch.cos(t * math.pi) for a tensor element t in [0, 1], as the ratio
\* <<numerator, denominator>> of Bhaskara's approximation
\* cos(x) ~ (pi^2 - 4 x^2) / (pi^2 + x^2) on [-pi/2, pi/2], mirrored beyond
CosPi(t) ==
    IF 2 * t <= One
    THEN <<One * One - 4 * t * t, One * One + t * t>>
    ELSE <<-(One * One - 4 * (One - t) * (One - t)), One * One + (One - t) * (One - t)>>

\* low_scale + (high_scale - low_scale) * 0.5 * (1 + torch.cos(t * math.pi))
CosineScales(high_scale, low_scale, levels) ==
    LET t == Linspace(0, One, levels)
    IN  [i \in 1..levels |->
            LET c == CosPi(t[i])
            IN  ToTensor(low_scale
                  + RoundDiv((high_scale - low_scale) * (c[2] + c[1]), 2 * c[2]))]

Returned(v) == [raised |-> None, value |-> v]
Raised(e) == [raised |-> e, value |-> <<>>]

\* create_guidance_scales without the early return for a single level
ScalesNoSingleLevel(high_scale, low_scale, levels, method) ==
    IF method = "linear" THEN Returned(Linspace(high_scale, low_scale, levels))
    ELSE IF method = "cosine" THEN Returned(CosineScales(high_scale, low_scale, levels))
    ELSE Raised("ValueError")

\* create_guidance_scales taking any unknown method for "linear"
ScalesDefaultLinear(high_scale, low_scale, levels, method) ==
    IF levels = 1 THEN Returned(<<high_scale>>)
    ELSE IF method = "cosine" THEN Returned(CosineScales(high_scale, low_scale, levels))
    ELSE Returned(Linspace(high_scale, low_scale, levels))

create_guidance_scales(high_scale, low_scale, levels, method) ==
    IF levels = 1 THEN Returned(<<high_scale>>)
    ELSE IF method = "linear" THEN Returned(Linspace(high_scale, low_scale, levels))
    ELSE IF method = "cosine" THEN Returned(CosineScales(high_scale, low_scale, levels))
    ELSE Raised("ValueError")

(***************************************************************************)
(* Text and float(text).                                                   *)
(***************************************************************************)
DigitChars == <<"0", "1", "2", "3", "4", "5", "6", "7", "8", "9">>
IsDigit(c) == \E d \in 1..Len(DigitChars) : DigitChars[d] = c
DigitVal(c) == (CHOOSE d \in 1..Len(DigitChars) : DigitChars[d] = c) - 1
IsSpace(c) == c = " "
IsSign(c) == c \in {"+", "-"}

RECURSIVE LStrip(_)
LStrip(s) == IF s # <<>> /\ IsSpace(Head(s)) THEN LStrip(Tail(s)) ELSE s

RECURSIVE RStrip(_)
RStrip(s) ==
    IF s # <<>> /\ IsSpace(s[Len(s)]) THEN RStrip(SubSeq(s, 1, Len(s) - 1)) ELSE s

\* str.strip()
Strip(s) == RStrip(LStrip(s))

\* str.split(sep): the pieces between the separators, one more than there are
\* separators
RECURSIVE Split(_, _)
Split(s, sep) ==
    IF \E i \in 1..Len(s) : s[i] = sep
    THEN LET i == CHOOSE k \in 1..Len(s) :
                      s[k] = sep /\ \A j \in 1..(k - 1) : s[j] # sep
         IN  <<SubSeq(s, 1, i - 1)>> \o Split(SubSeq(s, i + 1, Len(s)), sep)
    ELSE <<s>>

Unsigned(s) == IF s # <<>> /\ IsSign(Head(s)) THEN Tail(s) ELSE s
DotCount(s) == Cardinality({i \in 1..Len(s) : s[i] = "."})
DigitCount(s) == Cardinality({i \in 1..Len(s) : IsDigit(s[i])})

\* whether float(s) accepts s: blanks around, an optional sign, then digits
\* with at most one point and at least one digit
IsFloatLiteral(s) ==
    LET b == Unsigned(Strip(s))
    IN  /\ \A i \in 1..Len(b) : IsDigit(b[i]) \/ b[i] = "."
        /\ DotCount(b) <= 1
        /\ DigitCount(b) >= 1

RECURSIVE DigitsValue(_)
DigitsValue(s) ==
    IF s = <<>> THEN 0
    ELSE IF IsDigit(s[Len(s)])
         THEN 10 * DigitsValue(SubSeq(s, 1, Len(s) - 1)) + DigitVal(s[Len(s)])
         ELSE DigitsValue(SubSeq(s, 1, Len(s) - 1))

RECURSIVE Normal(_)
Normal(d) ==
    IF d.e > 0 /\ d.m % 10 = 0 THEN Normal([m |-> d.m \div 10, e |-> d.e - 1]) ELSE d

\* float(s) of an accepted s
FloatOf(s) ==
    LET t == Strip(s)
        b == Unsigned(t)
        frac == IF DotCount(b) = 0 THEN 0
                ELSE Len(b) - (CHOOSE i \in 1..Len(b) : b[i] = ".")
        mag == DigitsValue(b)
    IN  Normal([m |-> IF Head(t) = "-" THEN -mag ELSE mag, e |-> frac])

FloatOne == [m |-> 1, e |-> 0]

(***************************************************************************)
(* FDGNode.patch.                                                          *)
(***************************************************************************)
Ones(n) == [i \in 1..n |-> FloatOne]

\* the try/except around the list comprehension: any item float() rejects
\* replaces the whole list
ParseWeights(text, levels) ==
    LET items == Split(text, ",")
    IN  IF \A i \in 1..Len(items) : IsFloatLiteral(items[i])
        THEN [i \in 1..Len(items) |-> FloatOf(items[i])]
        ELSE Ones(levels)

\* FitWeights that pads a short list and leaves a long one as it is
FitWeightsNoTruncate(w, levels) ==
    IF Len(w) < levels THEN w \o Ones(levels - Len(w)) ELSE w

\* FitWeights that cuts a long list and leaves a short one as it is
FitWeightsNoPad(w, levels) ==
    IF Len(w) > levels THEN SubSeq(w, 1, levels) ELSE w

\* "Ensure parallel_weights has the same length as guidance_scale"
FitWeights(w, levels) ==
    IF Len(w) < levels THEN w \o Ones(levels - Len(w))
    ELSE IF Len(w) > levels THEN SubSeq(w, 1, levels)
    ELSE w

\* what patch leaves in the closure of fdg_function, or what it raises
patch(c) ==
    LET gs == create_guidance_scales(c.guidance_scale_high, c.guidance_scale_low,
                                     c.levels, c.interpolation_method)
    IN  IF gs.raised # None
        THEN [raised |-> gs.raised, guidance_scale |-> <<>>,
              parallel_weights_list |-> <<>>]
        ELSE [raised |-> None, guidance_scale |-> gs.value,
              parallel_weights_list |->
                  FitWeights(ParseWeights(c.parallel_weights, c.levels), c.levels)]

(***************************************************************************)
(* fdg_function, the callback patch registers.                             *)
(***************************************************************************)
\* a == b in place of math.isclose(a, b)
IsCloseExact(a, b) == a = b

\* math.isclose(a, b) with its default tolerances: relative 1e-09, absolute 0.
\* The grid of fine units is far coarser than 1e-09, so the relative
\* tolerance is scaled to 1 / RelTolDen, which reaches the grid neighbours.
IsClose(a, b) == Abs(a - b) * RelTolDen <= Max(Abs(a), Abs(b))

\* seq[i] as Python indexes: from 0, a negative i counting from the end
Index(seq, i) == IF i >= 0 THEN seq[i + 1] ELSE seq[Len(seq) + i + 1]

\* laplacian_guidance(cond, uncond, guidance_scale, parallel_weights_list), the
\* call the full-guidance branch returns the value of
MixerCall(cond, uncond, scales, weights) ==
    [fn |-> "laplacian_guidance", pred_cond |-> cond, pred_uncond |-> uncond,
     guidance_scale |-> scales, parallel_weights |-> weights]

\* EarlyStep comparing with >= in place of >
EarlyStepInclusive(a, steps) ==
    LET step_limits == IF steps >= Len(a.sample_sigmas) - 1
                       THEN Len(a.sample_sigmas) - 1 ELSE steps
    IN  a.sigma >= Index(a.sample_sigmas, step_limits)

\* EarlyStep clamping step_limits to the last index whatever fdg_steps is
EarlyStepAlwaysClamped(a, steps) ==
    a.sigma > Index(a.sample_sigmas, Len(a.sample_sigmas) - 1)

\* sigma.item() > sample_sigmas[step_limits].item(), step_limits clamped
EarlyStep(a, steps) ==
    LET step_limits == IF steps >= Len(a.sample_sigmas) - 1
                       THEN Len(a.sample_sigmas) - 1 ELSE steps
    IN  a.sigma > Index(a.sample_sigmas, step_limits)

\* A prediction tensor is the sequence of its elements, in fine units and
\* multiples of One so that the product with a scale is exact; an absent
\* prediction (uncond is None) is NoTensor.
NoTensor == <<>>
Blend(cond, uncond, scale) ==
    [i \in 1..Len(cond) |-> uncond[i] + ((cond[i] - uncond[i]) * scale) \div One]

fdg_function(a, high, steps, scales, weights) ==
    LET cond_scale == IF IsClose(a.cond_scale, One) THEN high ELSE a.cond_scale
    IN  IF a.uncond # NoTensor
        THEN IF EarlyStep(a, steps)
             THEN [branch |-> "full",
                   value |-> MixerCall(a.cond, a.uncond, scales, weights)]
             ELSE [branch |-> "fallback", value |-> Blend(a.cond, a.uncond, cond_scale)]
        ELSE [branch |-> "passthrough", value |-> a.cond]

(***************************************************************************)
(* laplacian_guidance: the arithmetic of one pyramid level.  A level is    *)
(* the flat sequence of its elements (channels, rows and columns), whole   *)
(* numbers here; 1 is the scale 1.0.  The arithmetic is exact: a quotient  *)
(* is kept as numerators over one common denominator.                      *)
(***************************************************************************)
RECURSIVE Dot(_, _)
Dot(u, v) == IF u = <<>> THEN 0 ELSE Head(u) * Head(v) + Dot(Tail(u), Tail(v))

\* project(v0, v1): v1 is normalised (a zero v1 stays zero, the norm being
\* floored at a tiny epsilon), v0_parallel = (v0 . v1^) v1^ and
\* v0_orthogonal = v0 - v0_parallel; both as numerators over den = v1 . v1
project(v0, v1) ==
    LET n2 == Dot(v1, v1)
        den == IF n2 = 0 THEN 1 ELSE n2
        par == [i \in 1..Len(v0) |-> IF n2 = 0 THEN 0 ELSE Dot(v0, v1) * v1[i]]
    IN  [den |-> den, parallel |-> par,
         orthogonal |-> [i \in 1..Len(v0) |-> den * v0[i] - par[i]]]

\* the body of the loop with `scale` in place of `scale - 1`
GuidedLevelWholeScale(p_cond, p_uncond, scale, par_weight) ==
    LET diff == [i \in 1..Len(p_cond) |-> p_cond[i] - p_uncond[i]]
        pr == project(diff, p_cond)
    IN  [den |-> pr.den,
         num |-> [i \in 1..Len(p_cond) |->
                    pr.den * p_cond[i]
                      + scale * (par_weight * pr.parallel[i] + pr.orthogonal[i])]]

\* the body of the loop over the levels: p_guided, as numerators over den
GuidedLevel(p_cond, p_uncond, scale, par_weight) ==
    LET diff == [i \in 1..Len(p_cond) |-> p_cond[i] - p_uncond[i]]
        pr == project(diff, p_cond)
    IN  [den |-> pr.den,
         num |-> [i \in 1..Len(p_cond) |->
                    pr.den * p_cond[i]
                      + (scale - 1) * (par_weight * pr.parallel[i] + pr.orthogonal[i])]]

\* parallel_weights is None (here the empty sequence): [1.0] * levels
NoWeights == <<>>
WeightsOrDefault(parallel_weights, levels) ==
    IF parallel_weights = NoWeights THEN [i \in 1..levels |-> 1] ELSE parallel_weights

\* how many levels the zip over the two pyramids (each of len(guidance_scale)
\* levels), guidance_scale and parallel_weights yields
ZipLen(scales, weights) == Min(Len(scales), Len(weights))

\* the guided pyramid of laplacian_guidance, from the two cropped pyramids
GuidedPyramid(cond_pyramid, uncond_pyramid, scales, parallel_weights) ==
    LET weights == WeightsOrDefault(parallel_weights, Len(scales))
    IN  [i \in 1..ZipLen(scales, weights) |->
            GuidedLevel(cond_pyramid[i], uncond_pyramid[i], scales[i], weights[i])]

(***************************************************************************)
(* laplacian_guidance: the shapes.  A shape is <<rows, columns>>.          *)
(***************************************************************************)
RECURSIVE Pow2(_)
Pow2(i) == IF i = 0 THEN 1 ELSE 2 * Pow2(i - 1)

\* build_laplacian_pyramid(pred, levels): level idx comes back at least
\* original_size // 2 ** idx large, with `pad` more rows and columns where the
\* library padded the input
BuiltShapes(size, levels, pad) ==
    [i \in 1..levels |->
        <<size[1] \div Pow2(i - 1) + pad, size[2] \div Pow2(i - 1) + pad>>]

\* p[..., :level_size[0], :level_size[1]]
Crop(shape, level_size) == <<Min(shape[1], level_size[1]), Min(shape[2], level_size[2])>>

CroppedShapes(size, levels, pad) ==
    LET built == BuiltShapes(size, levels, pad)
    IN  [i \in 1..levels |->
            Crop(built[i], <<size[1] \div Pow2(i - 1), size[2] \div Pow2(i - 1)>>)]

\* kornia.geometry.pyrup: twice the rows and columns
Pyrup(shape) == <<2 * shape[1], 2 * shape[2]>>

\* a + b on tensors: sizes must agree or one of them be 1
Broadcastable(a, b) == \A d \in 1..2 : a[d] = b[d] \/ a[d] = 1 \/ b[d] = 1
BroadcastShape(a, b) == [d \in 1..2 |-> IF a[d] = 1 THEN b[d] ELSE a[d]]

\* the loop of build_image_from_pyramid from level i down, img being the
\* image so far: its shape, or the error of the first step that fails
RECURSIVE Rebuild(_, _, _)
Rebuild(pyramid, i, img) ==
    IF i = 0 THEN Returned(img)
    ELSE IF img[1] = 0 \/ img[2] = 0 THEN Raised("RuntimeError")
    ELSE IF ~Broadcastable(Pyrup(img), pyramid[i]) THEN Raised("RuntimeError")
    ELSE Rebuild(pyramid, i - 1, BroadcastShape(Pyrup(img), pyramid[i]))

build_image_from_pyramid(pyramid) ==
    Rebuild(pyramid, Len(pyramid) - 1, pyramid[Len(pyramid)])

\* the shape laplacian_guidance returns for predictions of shape `size`
laplacian_guidance_shape(size, levels, pad) ==
    build_image_from_pyramid(CroppedShapes(size, levels, pad))

(***************************************************************************)
(* Inputs.                                                                 *)
(***************************************************************************)
Methods == {"linear", "cosine", "invalid"}
ScaleInputs == 0..MaxScale
Alphabet == {"1", ".", ",", " ", "x", "-"}
DefaultText ==
    <<"1", ".", "0", ",", "1", ".", "0", ",", "1", ".", "0", ",", "1", ".", "0">>
ExampleTexts ==
    { DefaultText,
      <<"1", ".", "0", ",", "2", ".", "0">>,
      <<"1", ",", "2", ",", "3", ",", "4", ",", "5">> }
Texts == UNION {[1..n -> Alphabet] : n \in 0..MaxTextLen} \cup ExampleTexts

PatchConfigs ==
    [guidance_scale_high : {One + Quantum + 1}, guidance_scale_low : {One},
     levels : 1..MaxLevels, fdg_steps : {1},
     interpolation_method : Methods, parallel_weights : Texts]

\* the configurations the sampling runs are explored with
GateConfigs ==
    [guidance_scale_high : {One + Quantum + 1}, guidance_scale_low : {One},
     levels : {1, 2}, fdg_steps : 0..MaxFdgSteps,
     interpolation_method : {"linear", "cosine"},
     parallel_weights : {DefaultText, <<"2">>}]

RECURSIVE NonIncreasing(_)
NonIncreasing(n) ==
    IF n = 0 THEN {<<>>}
    ELSE {Append(q, x) : q \in NonIncreasing(n - 1), x \in 0..MaxSigma} \cap
         {q \in [1..n -> 0..MaxSigma] : \A i \in 1..(n - 1) : q[i] >= q[i + 1]}

\* sigma schedules: non-empty, never rising
Schedules == UNION {NonIncreasing(n) : n \in 1..MaxSchedule}
Sigmas == 0..MaxSigma
ExampleSchedule == <<10, 8, 6, 4, 2, 0>>
ExampleSigmas == {9, 3}
CallInputs ==
    [cond : {<<2 * One>>}, uncond : {NoTensor, <<0>>, <<One>>},
     cond_scale : {One, One + 1, 2 * One}]

\* the levels the mixer's arithmetic is explored with
CondLevels == {<<1, 0>>, <<1, 1>>, <<0, 0>>}
UncondLevels == {<<0, 0>>, <<0, 1>>}
Factors == 0..MaxFactor

NoCall == [fn |-> None]
NoConfig == [levels |-> 0]

(***************************************************************************)
(* Configuration: create_guidance_scales on its own, and FDGNode.patch.    *)
(***************************************************************************)
InitIdle ==
    /\ pc = "idle"
    /\ call = NoCall
    /\ ret = Returned(<<>>)
    /\ cfg = NoConfig
    /\ guidance_scale = <<>>
    /\ parallel_weights_list = <<>>
    /\ sample_sigmas = <<>>
    /\ step = 0
    /\ modes = <<>>

CallCreateGuidanceScales ==
    /\ pc = "idle"
    /\ \E h \in ScaleInputs, l \in ScaleInputs, n \in 1..MaxLevels, m \in Methods :
          /\ call' = [fn |-> "create_guidance_scales", high_scale |-> h,
                      low_scale |-> l, levels |-> n, method |-> m]
          /\ ret' = create_guidance_scales(h, l, n, m)
    /\ pc' = "returned"
    /\ UNCHANGED <<cfg, guidance_scale, parallel_weights_list, sample_sigmas, step, modes>>

Patch(configs) ==
    /\ pc = "idle"
    /\ \E c \in configs :
          LET r == patch(c)
          IN  /\ cfg' = c
              /\ call' = [fn |-> "patch"]
              /\ ret' = [raised |-> r.raised, value |-> <<>>]
              /\ guidance_scale' = r.guidance_scale
              /\ parallel_weights_list' = r.parallel_weights_list
              /\ pc' = IF r.raised = None THEN "patched" ELSE "raised"
    /\ UNCHANGED <<sample_sigmas, step, modes>>

\* the host sampler starts a run over a sigma schedule
BeginRun(schedules) ==
    /\ pc = "patched"
    /\ \E q \in schedules : sample_sigmas' = q
    /\ step' = 0
    /\ modes' = <<>>
    /\ pc' = "sampling"
    /\ UNCHANGED <<call, ret, cfg, guidance_scale, parallel_weights_list>>

FdgArgs(in, sigma) ==
    [cond |-> in.cond, uncond |-> in.uncond, cond_scale |-> in.cond_scale,
     sample_sigmas |-> sample_sigmas, sigma |-> sigma]

Invoke(a) ==
    /\ call' = [fn |-> "fdg_function", args |-> a]
    /\ ret' = fdg_function(a, cfg.guidance_scale_high, cfg.fdg_steps,
                           guidance_scale, parallel_weights_list)

\* step k of the run: the model is evaluated at sample_sigmas[k]
SamplerStep(inputs) ==
    /\ pc = "sampling"
    /\ step < Len(sample_sigmas) - 1
    /\ \E in \in inputs : Invoke(FdgArgs(in, Index(sample_sigmas, step)))
    /\ modes' = Append(modes, ret'.branch)
    /\ step' = step + 1
    /\ UNCHANGED <<pc, cfg, guidance_scale, parallel_weights_list, sample_sigmas>>

\* the run is over; its schedule and step counter go with it, the patched
\* model stays
EndRun ==
    /\ pc = "sampling"
    /\ step >= Len(sample_sigmas) - 1
    /\ pc' = "patched"
    /\ call' = [fn |-> "patch"]
    /\ ret' = Returned(<<>>)
    /\ sample_sigmas' = <<>>
    /\ step' = 0
    /\ modes' = <<>>
    /\ UNCHANGED <<cfg, guidance_scale, parallel_weights_list>>

\* one evaluation of the patched model on its own: any schedule, and a sigma
\* of the caller's choosing (on the schedule or between its entries)
FdgCall(schedules, inputs, sigmas) ==
    /\ pc = "patched"
    /\ \E q \in schedules, in \in inputs, sigma \in sigmas :
          /\ sample_sigmas' = q
          /\ call' = [fn |-> "fdg_function",
                      args |-> [cond |-> in.cond, uncond |-> in.uncond,
                                cond_scale |-> in.cond_scale,
                                sample_sigmas |-> q, sigma |-> sigma]]
          /\ ret' = fdg_function(call'.args, cfg.guidance_scale_high, cfg.fdg_steps,
                                 guidance_scale, parallel_weights_list)
    /\ pc' = "called"
    /\ UNCHANGED <<cfg, guidance_scale, parallel_weights_list, step, modes>>

\* a sampling run of the patched model
Next ==
    \/ Patch(GateConfigs)
    \/ BeginRun(Schedules)
    \/ SamplerStep(CallInputs)
    \/ EndRun

Spec == InitIdle /\ [][Next]_vars

\* single evaluations of the patched model
NextCall ==
    \/ Patch(GateConfigs)
    \/ FdgCall(Schedules \cup {ExampleSchedule}, CallInputs, Sigmas \cup ExampleSigmas)

SpecCall == InitIdle /\ [][NextCall]_vars

\* the configuration step: every weights text, then one evaluation
NextPatch ==
    \/ CallCreateGuidanceScales
    \/ Patch(PatchConfigs)
    \/ FdgCall({<<2, 1, 0>>}, {[cond |-> <<2 * One>>, uncond |-> <<One>>, cond_scale |-> One]},
               {0, 2})

SpecPatch == InitIdle /\ [][NextPatch]_vars

(***************************************************************************)
(* The guidance mixer on its own.                                          *)
(***************************************************************************)
\* laplacian_guidance followed through its shapes
LaplacianGuidanceShape ==
    /\ pc = "idle"
    /\ \E h \in 1..MaxSide, w \in 1..MaxSide, n \in 1..(MaxMixLevels + 2), pad \in 0..1 :
          /\ call' = [fn |-> "laplacian_guidance", view |-> "shape",
                      original_size |-> <<h, w>>, levels |-> n,
                      cropped |-> CroppedShapes(<<h, w>>, n, pad)]
          /\ ret' = laplacian_guidance_shape(<<h, w>>, n, pad)
    /\ pc' = "mixed"
    /\ UNCHANGED <<cfg, guidance_scale, parallel_weights_list, sample_sigmas, step, modes>>

\* laplacian_guidance followed through the elements of its cropped pyramids
LaplacianGuidanceLevels ==
    /\ pc = "idle"
    /\ \E n \in 1..MaxMixLevels :
        \E pc_ \in [1..n -> CondLevels], pu \in [1..n -> UncondLevels],
           gs \in [1..n -> 1..MaxFactor], pw \in [1..n -> Factors] \cup {NoWeights} :
          /\ call' = [fn |-> "laplacian_guidance", view |-> "levels",
                      cond_pyramid |-> pc_, uncond_pyramid |-> pu,
                      guidance_scale |-> gs, parallel_weights |-> pw]
          /\ ret' = Returned(GuidedPyramid(pc_, pu, gs, pw))
    /\ pc' = "mixed"
    /\ UNCHANGED <<cfg, guidance_scale, parallel_weights_list, sample_sigmas, step, modes>>

NextMix == LaplacianGuidanceShape \/ LaplacianGuidanceLevels

SpecMix == InitIdle /\ [][NextMix]_vars

(***************************************************************************)
(* Properties of the configuration step.                                   *)
(***************************************************************************)
KnownMethod(m) == m \in {"linear", "cosine"}
ScalesReturned == pc = "returned" /\ call.fn = "create_guidance_scales"

\* C3: patch leaves exactly `levels` parallel weights: every item of the text
\* parsed in order, padded with 1.0 or cut to the first `levels`, when float()
\* accepts every item, and all ones when it rejects any; the text never makes
\* patch raise.  "1.0,2.0" with 4 levels gives 1, 2, 1, 1 and "1,2,3,4,5"
\* gives 1, 2, 3, 4.
C3_WeightsNormalised ==
    /\ pc = "raised" => ~KnownMethod(cfg.interpolation_method)
    /\ pc = "patched" =>
          LET items == Split(cfg.parallel_weights, ",")
              w == parallel_weights_list
              D(n) == [m |-> n, e |-> 0]
          IN  /\ Len(w) = cfg.levels
              /\ \A i \in 1..cfg.levels :
                    w[i] = IF \E k \in 1..Len(items) : ~IsFloatLiteral(items[k])
                           THEN D(1)
                           ELSE IF i <= Len(items) THEN FloatOf(items[i]) ELSE D(1)
              /\ (cfg.levels = 4 /\ cfg.parallel_weights = <<"1", ".", "0", ",", "2", ".", "0">>)
                    => w = <<D(1), D(2), D(1), D(1)>>
              /\ (cfg.levels = 4
                    /\ cfg.parallel_weights = <<"1", ",", "2", ",", "3", ",", "4", ",", "5">>)
                    => w = <<D(1), D(2), D(3), D(4)>>

C3_Witness ==
    /\ pc = "patched"
    /\ cfg.levels = 4
    /\ cfg.parallel_weights = <<"1", ",", "2", ",", "3", ",", "4", ",", "5">>
    /\ Len(parallel_weights_list) = 4

\* C5 as claimed: an unknown method makes create_guidance_scales raise
\* ValueError whatever the level count, and so makes patch raise.
C5_UnknownMethodAlwaysRaises ==
    /\ (ScalesReturned /\ ~KnownMethod(call.method)) => ret = Raised("ValueError")
    /\ (pc \in {"patched", "raised", "called"} /\ ~KnownMethod(cfg.interpolation_method))
          => pc = "raised"

\* C5, amended: an unknown method makes create_guidance_scales raise ValueError
\* and return no schedule when levels >= 2, and patch then raises before it
\* builds the callback; with levels = 1 the method is never looked at.
C5_UnknownMethodRaises ==
    /\ (ScalesReturned /\ ~KnownMethod(call.method) /\ call.levels >= 2)
          => ret = Raised("ValueError")
    /\ (pc \in {"patched", "raised", "called"} /\ ~KnownMethod(cfg.interpolation_method)
          /\ cfg.levels >= 2)
          => (pc = "raised" /\ ret.raised = "ValueError" /\ guidance_scale = <<>>)

C5_Witness ==
    /\ pc = "raised"
    /\ cfg.interpolation_method = "invalid"
    /\ cfg.levels >= 2
    /\ ret.raised = "ValueError"

LinearReturned ==
    ScalesReturned /\ call.method = "linear" /\ call.levels >= 2 /\ ret.raised = None

\* C6 as claimed: the linear schedule has `levels` values, the first exactly
\* high_scale, the last exactly low_scale, and every consecutive difference is
\* (low_scale - high_scale) / (levels - 1).
C6_LinearExact ==
    LinearReturned =>
        LET v == ret.value
            n == call.levels
        IN  /\ Len(v) = n
            /\ v[1] = call.high_scale
            /\ v[n] = call.low_scale
            /\ \A i \in 1..(n - 1) :
                  (v[i + 1] - v[i]) * (n - 1) = call.low_scale - call.high_scale

\* x is y rounded to the tensor's element type
NearestInTensor(x, y) == x % Quantum = 0 /\ 2 * Abs(x - y) <= Quantum

\* C6, amended: the linear schedule has `levels` values, the first is
\* high_scale and the last is low_scale as the tensor's element type rounds
\* them (so exactly high_scale and low_scale when the type holds them), and
\* every consecutive difference is (low_scale - high_scale) / (levels - 1) up
\* to that rounding.
C6_LinearRounded ==
    LinearReturned =>
        LET v == ret.value
            n == call.levels
        IN  /\ Len(v) = n
            /\ NearestInTensor(v[1], call.high_scale)
            /\ NearestInTensor(v[n], call.low_scale)
            /\ call.high_scale % Quantum = 0 => v[1] = call.high_scale
            /\ call.low_scale % Quantum = 0 => v[n] = call.low_scale
            /\ \A i \in 1..(n - 1) :
                  2 * Abs((v[i + 1] - v[i]) * (n - 1) - (call.low_scale - call.high_scale))
                      <= Quantum * ((n - 1) * Max(1, n - 2) + 2)

C6_Witness ==
    /\ LinearReturned
    /\ call.levels = 4
    /\ call.high_scale % Quantum # 0
    /\ ret.value[1] # call.high_scale
    /\ ret.value[4] = call.low_scale

\* C7: with levels = 1 create_guidance_scales returns the one-element list
\* [high_scale], the very value it was given, whatever the method and
\* low_scale are.
C7_SingleLevel ==
    (ScalesReturned /\ call.levels = 1) => ret = Returned(<<call.high_scale>>)

C7_Witness ==
    /\ ScalesReturned
    /\ call.levels = 1
    /\ call.method = "invalid"
    /\ call.low_scale # call.high_scale
    /\ call.high_scale % Quantum # 0
    /\ ret.value = <<call.high_scale>>

(***************************************************************************)
(* Properties of the step gate.                                            *)
(***************************************************************************)
Called == pc = "called" /\ call.fn = "fdg_function"

\* C1: the branch of one evaluation is decided by whether uncond is there, the
\* current sigma, the schedule and fdg_steps alone: passthrough (cond returned
\* as it is) without uncond; otherwise, with t = min(fdg_steps, S - 1), full
\* guidance exactly when sigma > schedule[t] and the fallback blend when
\* sigma <= schedule[t].  On 10, 8, 6, 4, 2, 0 with fdg_steps = 2, sigma 9 is
\* full guidance and sigma 3 the fallback.
C1_GateDecision ==
    Called =>
        LET a == call.args
            t == Min(cfg.fdg_steps, Len(a.sample_sigmas) - 1)
        IN  /\ ret.branch = IF a.uncond = NoTensor THEN "passthrough"
                            ELSE IF a.sigma > a.sample_sigmas[t + 1] THEN "full"
                            ELSE "fallback"
            /\ a.uncond = NoTensor => ret.value = a.cond
            /\ (a.sample_sigmas = <<10, 8, 6, 4, 2, 0>> /\ cfg.fdg_steps = 2
                  /\ a.uncond # NoTensor) =>
                  /\ a.sigma = 9 => ret.branch = "full"
                  /\ a.sigma = 3 => ret.branch = "fallback"

C1_Witness ==
    /\ Called
    /\ call.args.uncond # NoTensor
    /\ cfg.fdg_steps > Len(call.args.sample_sigmas) - 1
    /\ call.args.sigma = call.args.sample_sigmas[Len(call.args.sample_sigmas)]
    /\ ret.branch = "fallback"

StrictlyDecreasing(q) == \A i \in 1..(Len(q) - 1) : q[i] > q[i + 1]

C10_FallbackScale ==
    Called =>
        LET a == call.args
            close == Abs(a.cond_scale - One) * RelTolDen <= Max(Abs(a.cond_scale), One)
            s == IF close THEN cfg.guidance_scale_high ELSE a.cond_scale
        IN  /\ ret.branch = "fallback" =>
                  /\ Len(ret.value) = Len(a.cond)
                  /\ \A i \in 1..Len(a.cond) :
                        One * ret.value[i] = One * a.uncond[i] + (a.cond[i] - a.uncond[i]) * s
            /\ ret.branch = "full" =>
                  ret.value = [fn |-> "laplacian_guidance", pred_cond |-> a.cond,
                               pred_uncond |-> a.uncond, guidance_scale |-> guidance_scale,
                               parallel_weights |-> parallel_weights_list]
            /\ ret.branch = "passthrough" => ret.value = a.cond

C10_Witness ==
    /\ Called
    /\ ret.branch = "fallback"
    /\ call.args.cond_scale = One + 1
    /\ call.args.uncond = <<0>>
    /\ ret.value = <<2 * cfg.guidance_scale_high>>

(***************************************************************************)
(* Properties of the guidance mixer.                                       *)
(***************************************************************************)
\* C4: whatever patch accepted, its closure holds a schedule and a weight
\* list of `levels` entries each, an evaluation that takes full guidance
\* passes exactly these to laplacian_guidance, and the zip there yields
\* `levels` guided levels.
C4_LengthsBeforeMixing ==
    /\ pc \in {"patched", "called"} =>
          /\ cfg.levels >= 1
          /\ Len(guidance_scale) = cfg.levels
          /\ Len(parallel_weights_list) = cfg.levels
    /\ (Called /\ ret.branch = "full") =>
          /\ Len(ret.value.guidance_scale) = cfg.levels
          /\ Len(ret.value.parallel_weights) = cfg.levels
          /\ ZipLen(ret.value.guidance_scale,
                    WeightsOrDefault(ret.value.parallel_weights,
                                     Len(ret.value.guidance_scale))) = cfg.levels

C4_Witness ==
    /\ Called
    /\ ret.branch = "full"
    /\ cfg.levels = 3
    /\ cfg.interpolation_method = "cosine"
    /\ cfg.parallel_weights = <<"1", ",", "x">>
    /\ Len(ret.value.parallel_weights) = 3

MixedLevels == pc = "mixed" /\ call.view = "levels"
MixedShape == pc = "mixed" /\ call.view = "shape"

\* C8: with every guidance scale 1 and every parallel weight 1, each guided
\* level is the cropped conditional level itself, so that the output is the
\* reconstruction of the conditional pyramid.
C8_IdentityGuidance ==
    (MixedLevels
        /\ (\A i \in 1..Len(call.guidance_scale) : call.guidance_scale[i] = 1)
        /\ (\A j \in 1..Len(call.parallel_weights) : call.parallel_weights[j] = 1)) =>
        /\ Len(ret.value) = Len(call.cond_pyramid)
        /\ \A i \in 1..Len(ret.value) : \A k \in 1..Len(call.cond_pyramid[i]) :
              ret.value[i].num[k] = ret.value[i].den * call.cond_pyramid[i][k]

C8_Witness ==
    /\ MixedLevels
    /\ call.guidance_scale = <<1, 1>>
    /\ call.parallel_weights = <<1, 1>>
    /\ call.cond_pyramid = <<(<<1, 1>>), (<<1, 0>>)>>
    /\ call.uncond_pyramid = <<(<<0, 1>>), (<<0, 1>>)>>
    /\ ret.value[1].den = 2

\* C9: for every H x W >= 1 x 1 and every level count, level i is cropped to
\* floor(H / 2^i) x floor(W / 2^i), the reconstruction runs through without a
\* size mismatch, and the output is H x W.
C9_ShapePreserved ==
    MixedShape =>
        /\ \A i \in 1..call.levels :
              call.cropped[i] = <<call.original_size[1] \div Pow2(i - 1),
                                  call.original_size[2] \div Pow2(i - 1)>>
        /\ ret = Returned(call.original_size)

====
